---- MODULE Spec2Model ----
(***************************************************************************)
(* Product model of service/models.py: the Product record, its codec       *)
(* (serialize / deserialize), the persistence calls (create, update,       *)
(* delete) and the query helpers, over a session-backed record store.      *)
(***************************************************************************)
EXTENDS Integers, Sequences, FiniteSets, TLC

(***************************************************************************)
(* Python values.  Every value is a record of the same shape so that any   *)
(* two values can be compared:                                             *)
(*   t  the type name                                                      *)
(*   b  the truth value of a bool                                          *)
(*   n  an int's value, a float's numerator, a Decimal's signed coefficient*)
(*   d  a float's denominator, a Decimal's exponent                        *)
(*   s  a str's text, a Category member's name, or the special float /     *)
(*      Decimal kind ("nan", "inf", "NaN", "Infinity")                     *)
(***************************************************************************)
Val(t, b, n, d, s) == [t |-> t, b |-> b, n |-> n, d |-> d, s |-> s]

PyNone == Val("NoneType", FALSE, 0, 0, "")
PyBool(b) == Val("bool", b, 0, 0, "")
PyInt(n) == Val("int", FALSE, n, 0, "")
PyStr(s) == Val("str", FALSE, 0, 0, s)
PyList == Val("list", FALSE, 0, 0, "")

\* A finite float is the double nearest to n/d, in lowest terms; it is exactly
\* n/d when d is a power of two.
PyFloat(n, d) == Val("float", FALSE, n, d, "")
FloatNaN == Val("float", FALSE, 0, 1, "nan")
FloatInf == Val("float", FALSE, 0, 1, "inf")

\* A finite Decimal is coefficient n times ten to the exponent e.
Dec(n, e) == Val("Decimal", FALSE, n, e, "")
DecNaN == Val("Decimal", FALSE, 0, 0, "NaN")
DecInf == Val("Decimal", FALSE, 0, 0, "Infinity")

(***************************************************************************)
(* class Category(Enum)                                                    *)
(***************************************************************************)
Category ==
    [UNKNOWN |-> 0, CLOTHS |-> 1, FOOD |-> 2, HOUSEWARES |-> 3,
     AUTOMOTIVE |-> 4, TOOLS |-> 5]

CategoryNames == DOMAIN Category

Member(name) == Val("Category", FALSE, Category[name], 0, name)

Members == { Member(name) : name \in CategoryNames }

\* Attributes the enumeration class object has besides its members; getattr
\* finds them as it finds a member.
ClassAttributes == {"__members__", "mro"}

ClassAttr(name) == Val("attribute", FALSE, 0, 0, name)

(***************************************************************************)
(* Arithmetic helpers                                                      *)
(***************************************************************************)
Abs(x) == IF x < 0 THEN -x ELSE x

Sign(x) == IF x < 0 THEN -1 ELSE 1

RECURSIVE Pow(_, _)
Pow(b, k) == IF k <= 0 THEN 1 ELSE b * Pow(b, k - 1)

RECURSIVE NumDigits(_)
NumDigits(x) == IF x < 10 THEN 1 ELSE 1 + NumDigits(x \div 10)

RECURSIVE Gcd(_, _)
Gcd(a, b) == IF b = 0 THEN a ELSE Gcd(b, a % b)

RECURSIVE Log2(_)
Log2(x) == IF x <= 1 THEN 0 ELSE 1 + Log2(x \div 2)

IsPow2(x) == x >= 1 /\ Pow(2, Log2(x)) = x

(***************************************************************************)
(* An exception leaving a computation is a value of type "raise" whose s   *)
(* is the exception class.                                                  *)
(***************************************************************************)
Raise(kind) == Val("raise", FALSE, 0, 0, kind)

Raised(v) == v.t = "raise"

(***************************************************************************)
(* str(x) as a sequence of characters.  The texts used as prices are       *)
(* spelled out character by character for the parser below.                *)
(***************************************************************************)
Chars ==
    ("12.345" :> <<"1", "2", ".", "3", "4", "5">>) @@
    ("-0.125" :> <<"-", "0", ".", "1", "2", "5">>) @@
    ("12.5" :> <<"1", "2", ".", "5">>) @@
    (" 7 " :> <<" ", "7", " ">>) @@
    ("1e27" :> <<"1", "e", "2", "7">>) @@
    ("abc" :> <<"a", "b", "c">>) @@
    ("NaN" :> <<"N", "a", "N">>) @@
    ("Infinity" :> <<"I", "n", "f", "i", "n", "i", "t", "y">>) @@
    ("" :> <<>>) @@
    ("None" :> <<"N", "o", "n", "e">>) @@
    ("True" :> <<"T", "r", "u", "e">>) @@
    ("False" :> <<"F", "a", "l", "s", "e">>) @@
    ("[]" :> <<"[", "]">>)

DigitChars == <<"0", "1", "2", "3", "4", "5", "6", "7", "8", "9">>

IsDigit(c) == \E i \in 1..10 : DigitChars[i] = c

DigitVal(c) == (CHOOSE i \in 1..10 : DigitChars[i] = c) - 1

RECURSIVE NatChars(_)
NatChars(x) ==
    IF x < 10 THEN <<DigitChars[x + 1]>>
    ELSE NatChars(x \div 10) \o <<DigitChars[(x % 10) + 1]>>

IntChars(x) == IF x < 0 THEN <<"-">> \o NatChars(-x) ELSE NatChars(x)

\* str(raw_price)
StrChars(v) ==
    CASE v.t = "str" -> Chars[v.s]
      [] v.t = "int" -> IntChars(v.n)
      [] v.t = "bool" -> IF v.b THEN Chars["True"] ELSE Chars["False"]
      [] v.t = "NoneType" -> Chars["None"]
      [] OTHER -> Chars["[]"]

(***************************************************************************)
(* Decimal(text): optional sign, digits with an optional point, optional   *)
(* exponent; or NaN / Infinity; surrounding blanks are stripped.  Anything *)
(* else raises decimal.InvalidOperation.  The coefficient and the exponent *)
(* are kept as written ("12.50" is 1250 with exponent -2).                 *)
(***************************************************************************)
RECURSIVE StripLeft(_)
StripLeft(cs) ==
    IF cs # <<>> /\ Head(cs) = " " THEN StripLeft(Tail(cs)) ELSE cs

RECURSIVE StripRight(_)
StripRight(cs) ==
    IF cs # <<>> /\ cs[Len(cs)] = " "
    THEN StripRight(SubSeq(cs, 1, Len(cs) - 1))
    ELSE cs

Strip(cs) == StripRight(StripLeft(cs))

\* The first position of cs holding a character of set, or 0.
FirstIn(cs, set) ==
    IF \E i \in 1..Len(cs) : cs[i] \in set
    THEN CHOOSE i \in 1..Len(cs) :
            cs[i] \in set /\ \A j \in 1..(i - 1) : cs[j] \notin set
    ELSE 0

AllDigits(cs) == \A i \in 1..Len(cs) : IsDigit(cs[i])

RECURSIVE DigitsVal(_)
DigitsVal(cs) ==
    IF cs = <<>> THEN 0
    ELSE 10 * DigitsVal(SubSeq(cs, 1, Len(cs) - 1)) + DigitVal(cs[Len(cs)])

HasSign(cs) == cs # <<>> /\ Head(cs) \in {"+", "-"}

Unsigned(cs) == IF HasSign(cs) THEN Tail(cs) ELSE cs

SignOf(cs) == IF cs # <<>> /\ Head(cs) = "-" THEN -1 ELSE 1

ParseDecimal(text) ==
    LET cs == Strip(text)
        body == Unsigned(cs)
        ePos == FirstIn(body, {"e", "E"})
        mant == IF ePos = 0 THEN body ELSE SubSeq(body, 1, ePos - 1)
        expo == IF ePos = 0 THEN <<>> ELSE SubSeq(body, ePos + 1, Len(body))
        dot == FirstIn(mant, {"."})
        whole == IF dot = 0 THEN mant ELSE SubSeq(mant, 1, dot - 1)
        frac == IF dot = 0 THEN <<>> ELSE SubSeq(mant, dot + 1, Len(mant))
        mantOk == AllDigits(whole) /\ AllDigits(frac) /\ Len(whole) + Len(frac) >= 1
        expOk == ePos = 0 \/ (Unsigned(expo) # <<>> /\ AllDigits(Unsigned(expo)))
        expVal == IF ePos = 0 THEN 0 ELSE SignOf(expo) * DigitsVal(Unsigned(expo))
    IN  CASE body = Chars["NaN"] -> DecNaN
          [] body = Chars["Infinity"] -> DecInf
          [] mantOk /\ expOk ->
                Dec(SignOf(cs) * DigitsVal(whole \o frac), expVal - Len(frac))
          [] OTHER -> Raise("InvalidOperation")

(***************************************************************************)
(* Decimal.from_float(x): the exact value of the double.  n / 2^k is       *)
(* n * 5^k with exponent -k.  A double that is not a small binary fraction *)
(* is the one nearest to a decimal of at most two fractional digits; its   *)
(* expansion agrees with that decimal far beyond the fourth digit, and is  *)
(* written to four digits.                                                 *)
(***************************************************************************)
FromFloat(x) ==
    CASE x.s = "nan" -> DecNaN
      [] x.s = "inf" -> DecInf
      [] IsPow2(x.d) -> Dec(x.n * Pow(5, Log2(x.d)), -Log2(x.d))
      [] OTHER -> Dec((x.n * 10000) \div x.d, -4)

\* The precision of the decimal context quantize runs in.
Prec == 28

\* quantize with rounding=ROUND_HALF_EVEN, the default of the context
QuantizeHalfEven(v) ==
    CASE Raised(v) -> v
      [] v.s = "NaN" -> DecNaN
      [] v.s = "Infinity" -> Raise("InvalidOperation")
      [] v.d >= -2 ->
            IF v.n # 0 /\ NumDigits(Abs(v.n)) + v.d + 2 > Prec
            THEN Raise("InvalidOperation")
            ELSE Dec(v.n * Pow(10, v.d + 2), -2)
      [] OTHER ->
            LET unit == Pow(10, -2 - v.d)
                q == Abs(v.n) \div unit
                r == Abs(v.n) % unit
                up == 2 * r > unit \/ (2 * r = unit /\ q % 2 = 1)
            IN  Dec(Sign(v.n) * (IF up THEN q + 1 ELSE q), -2)

\* value.quantize(Decimal("0.01"), rounding=ROUND_HALF_UP)
QuantizeHalfUp(v) ==
    CASE Raised(v) -> v
      [] v.s = "NaN" -> DecNaN
      [] v.s = "Infinity" -> Raise("InvalidOperation")
      [] v.d >= -2 ->
            IF v.n # 0 /\ NumDigits(Abs(v.n)) + v.d + 2 > Prec
            THEN Raise("InvalidOperation")
            ELSE Dec(v.n * Pow(10, v.d + 2), -2)
      [] OTHER ->
            LET unit == Pow(10, -2 - v.d)
                q == Abs(v.n) \div unit
                r == Abs(v.n) % unit
            IN  Dec(Sign(v.n) * (IF 2 * r >= unit THEN q + 1 ELSE q), -2)

\* The price without the quantize of line 104
PriceOfUnquantized(raw) ==
    IF raw.t = "float" THEN FromFloat(raw) ELSE ParseDecimal(StrChars(raw))

\* The price deserialize turns a raw value into
PriceOf(raw) ==
    IF raw.t = "float"
    THEN QuantizeHalfUp(FromFloat(raw))
    ELSE QuantizeHalfUp(ParseDecimal(StrChars(raw)))

(***************************************************************************)
(* float(x) and round(x, 2) of serialize                                   *)
(***************************************************************************)
Reduced(n, d) == LET g == Gcd(Abs(n), d) IN PyFloat(n \div g, d \div g)

\* float(self.price)
ToFloat(v) ==
    CASE v.t = "float" -> v
      [] v.t = "int" -> PyFloat(v.n, 1)
      [] v.t = "Decimal" /\ v.s = "NaN" -> FloatNaN
      [] v.t = "Decimal" /\ v.s = "Infinity" -> FloatInf
      [] v.t = "Decimal" /\ v.d >= 0 -> PyFloat(v.n * Pow(10, v.d), 1)
      [] v.t = "Decimal" -> Reduced(v.n, Pow(10, -v.d))
      [] OTHER -> Raise("TypeError")

\* round(x, 2): the nearest multiple of 0.01, an exact tie going to the even one
Round2(x) ==
    IF Raised(x) \/ x.s # "" THEN x
    ELSE LET q == (100 * Abs(x.n)) \div x.d
             r == (100 * Abs(x.n)) % x.d
             up == 2 * r > x.d \/ (2 * r = x.d /\ q % 2 = 1)
         IN  Reduced(Sign(x.n) * (IF up THEN q + 1 ELSE q), 100)

\* self.category.name
NameOf(v) == IF v.t = "Category" THEN PyStr(v.s) ELSE Raise("AttributeError")

(***************************************************************************)
(* Product records.  An object of the program is a record of its six       *)
(* columns and of its state in the session.                                *)
(***************************************************************************)
Columns == {"id", "name", "description", "price", "available", "category"}

NoMapping == [k \in {} |-> PyNone]

\* Product.serialize: the mapping, or the exception it raises
Serialize(rec) ==
    LET price == Round2(ToFloat(rec.price))
        category == NameOf(rec.category)
    IN  IF Raised(price) THEN [exc |-> price.s, out |-> NoMapping]
        ELSE IF Raised(category) THEN [exc |-> category.s, out |-> NoMapping]
        ELSE [exc |-> "none",
              out |-> [id |-> rec.id, name |-> rec.name,
                       description |-> rec.description, price |-> price,
                       available |-> rec.available, category |-> category]]

(***************************************************************************)
(* Product.deserialize.  The argument is any Python value: t is its type   *)
(* and, for a dict, items its keys and values.                             *)
(***************************************************************************)
Dict(items) == [t |-> "dict", items |-> items]

NonDict(t) == [t |-> t, items |-> NoMapping]

\* data.get(key)
SubscriptGet(data, key) ==
    IF data.t # "dict" THEN Raise("AttributeError")
    ELSE IF key \notin DOMAIN data.items THEN PyNone
    ELSE data.items[key]

\* data[key]
Subscript(data, key) ==
    IF data.t # "dict" THEN Raise("TypeError")
    ELSE IF key \notin DOMAIN data.items THEN Raise("KeyError")
    ELSE data.items[key]

\* isinstance(data["available"], int), which a bool passes as well
IsBooleanOrInt(v) == v.t \in {"bool", "int"}

\* isinstance(data["available"], bool)
IsBoolean(v) == v.t = "bool"

\* getattr(Category, token)
GetCategory(token) ==
    CASE token.t # "str" -> Raise("TypeError")
      [] token.s \in CategoryNames -> Member(token.s)
      [] token.s \in ClassAttributes -> ClassAttr(token.s)
      [] OTHER -> Raise("AttributeError")

\* The except clauses: the exception that leaves deserialize
Handler(exc) ==
    IF exc \in {"AttributeError", "KeyError", "TypeError"}
    THEN "DataValidationError"
    ELSE exc

Stop(rec, exc) == [rec |-> rec, exc |-> exc]

\* The try block, statement by statement; an exception stops it where it is.
TryBlock(rec, data) ==
    LET name == Subscript(data, "name") IN
    IF Raised(name) THEN Stop(rec, name.s) ELSE
    LET r1 == [rec EXCEPT !.name = name]
        description == Subscript(data, "description") IN
    IF Raised(description) THEN Stop(r1, description.s) ELSE
    LET r2 == [r1 EXCEPT !.description = description]
        raw_price == Subscript(data, "price") IN
    IF Raised(raw_price) THEN Stop(r2, raw_price.s) ELSE
    LET price == PriceOf(raw_price) IN
    IF Raised(price) THEN Stop(r2, price.s) ELSE
    LET r3 == [r2 EXCEPT !.price = price]
        available == Subscript(data, "available") IN
    IF Raised(available) THEN Stop(r3, available.s) ELSE
    IF ~IsBoolean(available) THEN Stop(r3, "DataValidationError") ELSE
    LET r4 == [r3 EXCEPT !.available = available]
        token == Subscript(data, "category") IN
    IF Raised(token) THEN Stop(r4, token.s) ELSE
    LET category == GetCategory(token) IN
    IF Raised(category) THEN Stop(r4, category.s) ELSE
    Stop([r4 EXCEPT !.category = category], "none")

\* deserialize that also takes the id of the mapping
DeserializeWithId(rec, data) ==
    LET body == TryBlock(rec, data)
    IN  [rec |-> IF data.t = "dict" /\ "id" \in DOMAIN data.items
                 THEN [body.rec EXCEPT !.id = data.items["id"]]
                 ELSE body.rec,
         exc |-> Handler(body.exc)]

Deserialize(rec, data) ==
    LET body == TryBlock(rec, data)
    IN  [rec |-> body.rec, exc |-> Handler(body.exc)]

(***************************************************************************)
(* The record store.  store holds the committed rows.  An object is        *)
(* transient until create, persistent (attached to the session, one row    *)
(* of the store carrying its id) until delete, then deleted.               *)
(***************************************************************************)
VARIABLES
    objs,     \* the Product objects of the program, by handle
    store,    \* the committed rows of the product table
    nextId,   \* the next value of the primary-key sequence
    op,       \* the last call
    who,      \* the object it was made on
    arg,      \* the argument of the last deserialize
    key,      \* the arguments of the last query
    exc,      \* the exception the last call raised, or "none"
    found,    \* the rows the last query returned
    out       \* the mapping the last serialize returned

vars == <<objs, store, nextId, op, who, arg, key, exc, found, out>>

\* Bounds of the model
MaxId == 2

Handles == {"p1", "p2"}

Fields == Columns \ {"id"}

\* Product(): every column unset
Blank ==
    [state |-> "transient", id |-> PyNone, name |-> PyNone,
     description |-> PyNone, price |-> PyNone, available |-> PyNone,
     category |-> PyNone]

Product(id, name, description, price, available, category) ==
    [state |-> "transient", id |-> id, name |-> name,
     description |-> description, price |-> price, available |-> available,
     category |-> category]

\* An object after delete: no call is made on it again, its columns are not
\* looked at.
Deleted == [Blank EXCEPT !.state = "deleted"]

\* The row of an object
Row(rec) == [c \in Columns |-> rec[c]]

NoneRow == Row(Blank)

\* The value a Numeric column gives back for the price it was given
ToNumeric(v) ==
    CASE v.t = "float" -> FromFloat(v)
      [] v.t = "int" -> Dec(v.n, 0)
      [] OTHER -> v

\* The column defaults of available and category, applied to an unset column
Stored(rec) ==
    [rec EXCEPT
        !.price = ToNumeric(rec.price),
        !.available = IF rec.available = PyNone THEN PyBool(TRUE) ELSE rec.available,
        !.category = IF rec.category = PyNone THEN Member("UNKNOWN") ELSE rec.category]

\* The values the columns can hold (nullable=False, Numeric, Boolean, Enum)
Storable(rec) ==
    /\ rec.name.t = "str"
    /\ rec.description.t = "str"
    /\ rec.price.t \in {"int", "float", "Decimal"}
    /\ rec.price.s \notin {"inf", "Infinity"}
    /\ rec.available.t \in {"bool", "NoneType"}
    /\ rec.category.t \in {"Category", "NoneType"}

Attached(os) == { h \in Handles : os[h].state = "persistent" }

\* The rows as the session sees them: each attached object's pending changes
\* are flushed over its row.
Flushed(st, os) ==
    { IF \E h \in Attached(os) : os[h].id = r.id
      THEN Row(Stored(os[CHOOSE h \in Attached(os) : os[h].id = r.id]))
      ELSE r : r \in st }

\* What the objects hold once a commit has expired and reloaded them
Reloaded(os) ==
    [h \in Handles |-> IF h \in Attached(os) THEN Stored(os[h]) ELSE os[h]]

(***************************************************************************)
(* The inputs the calls are made with                                      *)
(***************************************************************************)
\* A well-formed mapping, of the shape test_deserialize_valid_category gives
BaseItems ==
    [name |-> PyStr("Fedora"), description |-> PyStr("A red hat"),
     price |-> PyFloat(25, 2), available |-> PyBool(TRUE),
     category |-> PyStr("CLOTHS")]

With(items, k, v) ==
    [x \in DOMAIN items \cup {k} |-> IF x = k THEN v ELSE items[x]]

Without(items, k) == [x \in DOMAIN items \ {k} |-> items[x]]

\* Prices: binary fractions (0.125 and -0.125 are exact ties), doubles nearest
\* to a two-digit decimal (19.99), ints, and texts.
PriceInputs ==
    {PyFloat(25, 2), PyFloat(1, 8), PyFloat(-1, 8), PyFloat(3, 8),
     PyFloat(1999, 100), PyFloat(10, 1), FloatNaN, FloatInf,
     PyInt(10), PyInt(-3), PyBool(TRUE), PyNone, PyList,
     PyStr("12.345"), PyStr("-0.125"), PyStr("12.5"), PyStr(" 7 "),
     PyStr("1e27"), PyStr("abc"), PyStr("NaN"), PyStr("Infinity"), PyStr("")}

AvailableInputs ==
    {PyBool(TRUE), PyBool(FALSE), PyStr("yes"), PyInt(1), PyInt(0), PyNone}

CategoryInputs ==
    { PyStr(c) : c \in CategoryNames }
        \cup {PyStr("INVALID"), PyStr("cloths"), PyStr("__members__"),
              PyStr("mro"), PyInt(2), PyNone}

DictInputs ==
    { With(BaseItems, "price", v) : v \in PriceInputs }
        \cup { With(BaseItems, "available", v) : v \in AvailableInputs }
        \cup { With(BaseItems, "category", v) : v \in CategoryInputs }
        \cup { Without(BaseItems, k) : k \in DOMAIN BaseItems }
        \cup { With(BaseItems, "id", PyInt(2)),
               With(With(BaseItems, "name", PyStr("Hat")), "price", PyStr("abc")),
               [description |-> PyStr("Missing name")],
               NoMapping }

DataInputs ==
    { Dict(items) : items \in DictInputs }
        \cup {NonDict("NoneType"), NonDict("str"), NonDict("list")}

\* Construction: Product(), the record of test_create_a_product, and a record
\* that carries an id before it is created.
Constructions ==
    {Blank,
     Product(PyNone, PyStr("Fedora"), PyStr("A red hat"), PyFloat(25, 2),
             PyBool(TRUE), Member("CLOTHS")),
     Product(PyInt(1), PyStr("Hat"), PyStr("A red hat"), PyFloat(1, 8),
             PyBool(FALSE), PyNone)}

\* Field assignments: product.id = None, product.description = "testing", ...
Assignments ==
    {<<"id", PyNone>>, <<"description", PyStr("testing")>>,
     <<"price", PyFloat(1, 8)>>}

NameKeys == {PyStr("Fedora"), PyStr("Nobody")}

NoArg == Dict(NoMapping)

(***************************************************************************)
(* The calls                                                               *)
(***************************************************************************)
Init ==
    /\ objs = [h \in Handles |-> Blank]
    /\ store = {}
    /\ nextId = 1
    /\ op = "init"
    /\ who = "p1"
    /\ arg = NoArg
    /\ key = <<>>
    /\ exc = "none"
    /\ found = {}
    /\ out = NoMapping

\* What a call that is no query, deserialize or serialize leaves behind
Called(name, h, e) ==
    /\ op' = name
    /\ who' = h
    /\ exc' = e
    /\ arg' = NoArg
    /\ key' = <<>>
    /\ found' = {}
    /\ out' = NoMapping

\* Product(**kwargs): a new object takes the place of one no longer used
Construct(h, rec) ==
    /\ objs[h].state # "persistent"
    /\ objs' = [objs EXCEPT ![h] = rec]
    /\ Called("construct", h, "none")
    /\ UNCHANGED <<store, nextId>>

\* product.<column> = value; the id of an attached object is left alone
Assign(h, column, value) ==
    /\ column = "id" => objs[h].state = "transient"
    /\ objs[h].state # "deleted"
    /\ objs' = [objs EXCEPT ![h][column] = value]
    /\ Called("assign", h, "none")
    /\ UNCHANGED <<store, nextId>>

\* product.deserialize(data).  An attached object is given only values its
\* columns can hold.
DeserializeCall(h, data) ==
    LET res == Deserialize(objs[h], data) IN
    /\ objs[h].state # "deleted"
    /\ objs[h].state = "persistent" => Storable(res.rec)
    /\ objs' = [objs EXCEPT ![h] = res.rec]
    /\ op' = "deserialize"
    /\ who' = h
    /\ arg' = data
    /\ exc' = res.exc
    /\ key' = <<>>
    /\ found' = {}
    /\ out' = NoMapping
    /\ UNCHANGED <<store, nextId>>

\* product.serialize()
SerializeCall(h) ==
    LET res == Serialize(objs[h]) IN
    /\ objs[h].state # "deleted"
    /\ op' = "serialize"
    /\ who' = h
    /\ arg' = NoArg
    /\ exc' = res.exc
    /\ key' = <<>>
    /\ found' = {}
    /\ out' = res.out
    /\ UNCHANGED <<objs, store, nextId>>

\* create without self.id = None: an id the record carries is kept
AssignedIdKept(rec, seq) == IF rec.id = PyNone THEN PyInt(seq) ELSE rec.id

\* self.id = None, then the INSERT draws the id from the sequence
AssignedId(rec, seq) == PyInt(seq)

\* product.create(), on an object not yet in the session whose columns the
\* table accepts
Create(h) ==
    LET new == [Stored(objs[h]) EXCEPT
                    !.id = AssignedId(objs[h], nextId), !.state = "persistent"]
    IN  /\ objs[h].state = "transient"
        /\ Storable(objs[h])
        /\ nextId <= MaxId
        /\ store' = Flushed(store, objs) \cup {Row(new)}
        /\ objs' = [Reloaded(objs) EXCEPT ![h] = new]
        /\ nextId' = nextId + 1
        /\ Called("create", h, "none")

\* update without its check
UnsetNever(id) == FALSE

\* not self.id
Unset(id) == id = PyNone \/ id = PyInt(0)

\* product.update()
Update(h) ==
    /\ objs[h].state # "deleted"
    /\ IF Unset(objs[h].id)
       THEN /\ Called("update", h, "DataValidationError")
            /\ UNCHANGED <<objs, store, nextId>>
       ELSE /\ store' = Flushed(store, objs)
            /\ objs' = Reloaded(objs)
            /\ Called("update", h, "none")
            /\ UNCHANGED nextId

\* product.delete(), on an object of the session
Delete(h) ==
    /\ objs[h].state = "persistent"
    /\ store' = { r \in Flushed(store, objs) : r.id # objs[h].id }
    /\ objs' = [Reloaded(objs) EXCEPT ![h] = Deleted]
    /\ Called("delete", h, "none")
    /\ UNCHANGED nextId

(***************************************************************************)
(* The queries.  A query runs against the rows as the session sees them.   *)
(***************************************************************************)
Queried(name, args, rows) ==
    /\ op' = name
    /\ who' = who
    /\ arg' = NoArg
    /\ key' = args
    /\ exc' = "none"
    /\ found' = rows
    /\ out' = NoMapping
    /\ UNCHANGED <<objs, store, nextId>>

\* cls.query.all()
All(rows) == rows

\* cls.query.get(product_id): the row, or None
Find(rows, id) ==
    IF \E r \in rows : r.id = id
    THEN CHOOSE r \in rows : r.id = id
    ELSE NoneRow

\* cls.query.filter(cls.name == name)
ByName(rows, name) == { r \in rows : r.name = name }

\* cls.query.filter(cls.available == available)
ByAvailability(rows, available) == { r \in rows : r.available = available }

\* the query without its filter
ByCategoryUnfiltered(rows, category) == rows

\* cls.query.filter(cls.category == category)
ByCategory(rows, category) == { r \in rows : r.category = category }

\* The parameter defaults: available=True, category=Category.UNKNOWN
DefaultAvailable == PyBool(TRUE)

DefaultCategory == Member("UNKNOWN")

Param(args, default) == IF args = <<>> THEN default ELSE args[1]

AllCall == Queried("all", <<>>, All(Flushed(store, objs)))

FindCall(id) ==
    LET row == Find(Flushed(store, objs), id)
    IN  Queried("find", <<id>>, IF row = NoneRow THEN {} ELSE {row})

FindByName(name) ==
    Queried("find_by_name", <<name>>, ByName(Flushed(store, objs), name))

FindByAvailability(args) ==
    Queried("find_by_availability", args,
            ByAvailability(Flushed(store, objs), Param(args, DefaultAvailable)))

FindByCategory(args) ==
    Queried("find_by_category", args,
            ByCategory(Flushed(store, objs), Param(args, DefaultCategory)))

IdKeys == { PyInt(i) : i \in 1..(MaxId + 1) }

AvailableArgs == {<<>>, <<PyBool(FALSE)>>}

CategoryArgs == {<<>>, <<Member("CLOTHS")>>, <<Member("TOOLS")>>}

\* The inputs of the specification of the store: few records, so that two
\* objects and their rows stay within reach.
StoreConstructions ==
    [p1 |-> Product(PyNone, PyStr("Fedora"), PyStr("A red hat"),
                    PyFloat(25, 2), PyBool(TRUE), Member("CLOTHS")),
     p2 |-> Product(PyInt(1), PyStr("Hat"), PyStr("A red hat"), Dec(1999, -2),
                    PyBool(FALSE), PyNone)]

StoreAssignments == {<<"description", PyStr("testing")>>}

StoreDataInputs ==
    {Dict(With(BaseItems, "id", PyInt(2))),
     Dict(With(Without(BaseItems, "name"), "id", PyInt(2)))}

Next ==
    \/ \E h \in Handles : Construct(h, StoreConstructions[h])
    \/ \E h \in Handles, a \in StoreAssignments : Assign(h, a[1], a[2])
    \/ \E h \in Handles, data \in StoreDataInputs : DeserializeCall(h, data)
    \/ \E h \in Handles : Create(h)
    \/ \E h \in Handles : Update(h)
    \/ \E h \in Handles : Delete(h)
    \/ AllCall
    \/ \E id \in IdKeys : FindCall(id)
    \/ \E name \in NameKeys : FindByName(name)
    \/ \E args \in AvailableArgs : FindByAvailability(args)
    \/ \E args \in CategoryArgs : FindByCategory(args)

Spec == Init /\ [][Next]_vars

\* The specification of the codec: one object, every input.
CodecNext ==
    \/ \E rec \in Constructions : Construct("p1", rec)
    \/ \E a \in Assignments : Assign("p1", a[1], a[2])
    \/ \E data \in DataInputs : DeserializeCall("p1", data)
    \/ SerializeCall("p1")

CodecSpec == Init /\ [][CodecNext]_vars

(***************************************************************************)
(* Properties of deserialize                                               *)
(***************************************************************************)
Order == <<"name", "description", "price", "available", "category">>

HasKeys(data, keys) == data.t = "dict" /\ keys \subseteq DOMAIN data.items

\* C1: every failing call of deserialize raises DataValidationError and no
\* other kind of error, whatever the input.
C1_OnlyValidationErrors ==
    op = "deserialize" /\ exc # "none" => exc = "DataValidationError"

\* C2, as claimed: when deserialize raises, every field of the record has the
\* value it had before the call.
C2_NeverPartiallyApplied ==
    [][op' = "deserialize" /\ exc' # "none" =>
          \A f \in Fields : objs'[who'][f] = objs[who'][f]]_vars

\* Whether reading field f of the mapping stops deserialize
Fails(data, f) ==
    \/ ~HasKeys(data, {f})
    \/ f = "price" /\ Raised(PriceOf(data.items[f]))
    \/ f = "available" /\ data.items[f].t # "bool"
    \/ f = "category" /\ Raised(GetCategory(data.items[f]))

\* The position in Order of the first field that stops deserialize, 6 if none
FirstFailure(data) ==
    IF \E i \in 1..5 : Fails(data, Order[i])
    THEN CHOOSE i \in 1..5 :
            Fails(data, Order[i]) /\ \A j \in 1..(i - 1) : ~Fails(data, Order[j])
    ELSE 6

\* The value deserialize gives field f
Given(data, f) ==
    CASE f = "price" -> PriceOf(data.items[f])
      [] f = "category" -> GetCategory(data.items[f])
      [] OTHER -> data.items[f]

\* C2, amended: deserialize raises exactly when some field stops it; the fields
\* from the first such field on (in the order name, description, price,
\* available, category) keep their values, the fields before it have been
\* assigned from the mapping; a call that returns has assigned all five.
C2_AppliedUpToFailure ==
    [][op' = "deserialize" =>
          LET k == FirstFailure(arg') IN
          /\ (exc' = "none") <=> (k = 6)
          /\ \A i \in 1..5 :
                objs'[who'][Order[i]] =
                    IF i < k THEN Given(arg', Order[i]) ELSE objs[who'][Order[i]]
          ]_vars

\* A call that raised after it had assigned the name over another name
C2_Witness ==
    /\ op = "deserialize"
    /\ exc # "none"
    /\ FirstFailure(arg) = 3
    /\ objs[who].name = PyStr("Hat")
    /\ objs[who].category = Member("CLOTHS")

\* C3: deserialize accepts a category token only if it is one of the six
\* member names, so that after a successful call the record's category is one
\* of the six members.
C3_CategoryIsMember ==
    op = "deserialize" /\ exc = "none" =>
        /\ arg.items["category"].s \in CategoryNames
        /\ objs[who].category \in Members

\* C4: when name, description and price are valid and available is not a
\* bool, deserialize raises DataValidationError and leaves available alone.
C4_AvailableStrictlyBoolean ==
    [][/\ op' = "deserialize"
       /\ HasKeys(arg', {"name", "description", "price", "available"})
       /\ ~Raised(PriceOf(arg'.items["price"]))
       /\ arg'.items["available"].t # "bool"
       => /\ exc' = "DataValidationError"
          /\ objs'[who'].available = objs[who'].available]_vars

\* A record whose available was true refused the number 0
C4_Witness ==
    /\ op = "deserialize"
    /\ HasKeys(arg, {"available"})
    /\ arg.items["available"] = PyInt(0)
    /\ exc = "DataValidationError"
    /\ objs[who].available = PyBool(TRUE)

(***************************************************************************)
(* The round trip.  The value of a price is n/d times ten to the e.        *)
(***************************************************************************)
Exactly(n, d, e) == [n |-> n, d |-> d, e |-> e]

NumericTexts ==
    ("12.345" :> Exactly(12345, 1000, 0)) @@
    ("-0.125" :> Exactly(-125, 1000, 0)) @@
    ("12.5" :> Exactly(125, 10, 0)) @@
    ("1e27" :> Exactly(1, 1, 27))

IsNumeric(v) ==
    \/ v.t \in {"int", "float"} /\ v.s = ""
    \/ v.t = "str" /\ v.s \in DOMAIN NumericTexts

ValueOf(v) ==
    CASE v.t = "str" -> NumericTexts[v.s]
      [] v.t = "int" -> Exactly(v.n, 1, 0)
      [] OTHER -> Exactly(v.n, v.d, 0)

\* Whether the magnitude of a value is below ten to the k
Below(val, k) == val.n = 0 \/ NumDigits(Abs(val.n) \div val.d) + val.e <= k

\* The value in cents, a tie rounded away from zero
HalfUpCents(val) ==
    Sign(val.n) * ((200 * Abs(val.n) * Pow(10, val.e) + val.d) \div (2 * val.d))

ValidMapping(data) ==
    /\ HasKeys(data, Fields)
    /\ data.items["name"].t = "str"
    /\ data.items["description"].t = "str"
    /\ IsNumeric(data.items["price"])
    /\ data.items["available"].t = "bool"
    /\ data.items["category"].t = "str"
    /\ data.items["category"].s \in CategoryNames

RoundTrip(data, rec, e) ==
    /\ e = "none"
    /\ Serialize(rec).exc = "none"
    /\ LET m == Serialize(rec).out IN
       /\ m.name = data.items["name"]
       /\ m.description = data.items["description"]
       /\ m.available = data.items["available"]
       /\ m.category = data.items["category"]
       /\ m.price = Reduced(HalfUpCents(ValueOf(data.items["price"])), 100)

TwoDigitDecimal(v) == v.t = "Decimal" /\ v.s = "" /\ v.d = -2

\* C6, as claimed: the price of every record, in memory and in the store, is
\* an exact decimal with two fractional digits, never a float.
C6_PriceAlwaysTwoDigits ==
    /\ \A h \in Handles :
          objs[h].price # PyNone => TwoDigitDecimal(objs[h].price)
    /\ \A r \in store : TwoDigitDecimal(r.price)

\* C6, amended: the price a successful deserialize assigns is a Decimal, never
\* a float: one of two fractional digits, or the decimal NaN when the input
\* was a NaN.
C6_DeserializedPriceIsDecimal ==
    op = "deserialize" /\ exc = "none" =>
        \/ TwoDigitDecimal(objs[who].price)
        \/ /\ objs[who].price = DecNaN
           /\ arg.items["price"] \in {FloatNaN, PyStr("NaN")}

\* A float of three fractional digits became a two-digit Decimal
C6_Witness ==
    /\ op = "deserialize"
    /\ exc = "none"
    /\ arg.items["price"] = PyFloat(3, 8)
    /\ objs[who].price = Dec(38, -2)

(***************************************************************************)
(* Properties of the store                                                 *)
(***************************************************************************)
\* C7: update on a record whose id is None raises DataValidationError and
\* commits nothing: the rows of the store are as they were.
C7_UpdateWithoutIdCommitsNothing ==
    [][op' = "update" /\ objs[who'].id = PyNone =>
          exc' = "DataValidationError" /\ store' = store]_vars

\* update was refused while an attached object had a change a commit would
\* have written
C7_Witness ==
    /\ op = "update"
    /\ exc = "DataValidationError"
    /\ objs[who].id = PyNone
    /\ store # {}
    /\ Flushed(store, objs) # store

StoreIds == { r.id : r \in store }

\* The rows are those of the objects created and not deleted, under distinct
\* ids drawn from the sequence; all() and find() read them.
Lifecycle ==
    /\ Cardinality(store) = Cardinality(StoreIds)
    /\ \A r \in store : r.id.t = "int" /\ r.id.n \in 1..(nextId - 1)
    /\ StoreIds = { objs[h].id : h \in Attached(objs) }
    /\ Cardinality(StoreIds) = Cardinality(Attached(objs))
    /\ All(Flushed(store, objs)) = { Row(Stored(objs[h])) : h \in Attached(objs) }
    /\ \A id \in IdKeys :
          LET row == Find(Flushed(store, objs), id) IN
          IF id \in StoreIds
          THEN row \in Flushed(store, objs) /\ row.id = id
          ELSE row = NoneRow

\* C8: after any calls of create and delete, the store holds exactly the
\* records created and not yet deleted, each under a store-assigned id
\* whatever id it carried, no two under the same id; create has added its
\* record under the id just drawn, delete has removed its record and no
\* other; find(i) is the record of id i, or None.
C8_CreatedAndNotDeleted ==
    /\ Lifecycle
    /\ op = "create" =>
          /\ objs[who].state = "persistent"
          /\ objs[who].id = PyInt(nextId - 1)
          /\ Row(objs[who]) \in store
    /\ op = "delete" =>
          /\ objs[who].state = "deleted"
          /\ \A h \in Attached(objs) : objs[h].id \in StoreIds

\* Two records were created, one of them carrying an id, and one was deleted
C8_Witness ==
    /\ op = "delete"
    /\ Cardinality(store) = 1
    /\ objs["p2"].state = "persistent"
    /\ objs["p2"].id = PyInt(2)
    /\ nextId = 3

\* C9: find_by_name, find_by_availability and find_by_category return the
\* rows whose column equals the argument, all of them and no other, and none
\* without raising when no row matches; without an argument the availability
\* is True and the category UNKNOWN.
C9_QueriesFilterByEquality ==
    LET rows == All(Flushed(store, objs))
        column == CASE op = "find_by_name" -> "name"
                    [] op = "find_by_availability" -> "available"
                    [] OTHER -> "category"
        wanted == CASE key # <<>> -> key[1]
                    [] op = "find_by_availability" -> PyBool(TRUE)
                    [] OTHER -> Member("UNKNOWN")
    IN  op \in {"find_by_name", "find_by_availability", "find_by_category"} =>
            /\ exc = "none"
            /\ \A r \in found : r \in rows /\ r[column] = wanted
            /\ \A r \in rows : r[column] = wanted => r \in found

\* find_by_category() without an argument returned the UNKNOWN row and left
\* the other
C9_Witness ==
    /\ op = "find_by_category"
    /\ key = <<>>
    /\ Cardinality(found) = 1
    /\ Cardinality(All(Flushed(store, objs))) = 2

\* C10: deserialize neither reads nor writes the id: whatever the mapping,
\* with or without an "id" key, raising or not, the record's id is what it
\* was, and the store is unchanged.
C10_DeserializeLeavesIdAndStore ==
    [][op' = "deserialize" =>
          /\ objs'[who'].id = objs[who'].id
          /\ store' = store
          /\ nextId' = nextId]_vars

\* A stored record of id 1 took a mapping whose "id" is 2
C10_Witness ==
    /\ op = "deserialize"
    /\ exc = "none"
    /\ HasKeys(arg, {"id"})
    /\ objs[who].state = "persistent"
    /\ objs[who].id # arg.items["id"]
    /\ store # {}

====
